---- MODULE Spec2Model ----
(***************************************************************************)
(* Model of codeguard-backend's dynamic analyzer                           *)
(* (src/app/analyzers/dynamic_analyzer.py): one DynamicAnalyzer object,    *)
(* from the state after __init__ through one analyze() call.               *)
(*                                                                         *)
(* A Python dict is a TLA+ record (a function on its keys); d.get(k, v) is *)
(* Get(d, k, v).  Python's None is the string "<None>".  A JSON value that *)
(* is not a record is wrapped as Json(FALSE, ..), a record as Json(TRUE,..)*)
(* Text written to an output stream is a sequence of chunks: a blank line, *)
(* a line of plain text, or one complete JSON value.                       *)
(***************************************************************************)
EXTENDS Naturals, Sequences, FiniteSets, TLC

\* ------------------------------------------------------------------ bounds
\* longest run of the target code, and largest request timeout, in time units
MaxRunTime == 2
MaxTimeout == 1
\* most chunks the target code itself writes to its standard output
MaxPrint == 1

\* ------------------------------------------------------------- program data
None == "<None>"

\* _DANGEROUS_IMPORTS
DANGEROUS_IMPORTS ==
    {"os", "subprocess", "shutil", "socket", "ctypes", "multiprocessing",
     "threading", "signal", "pty", "tty", "termios", "resource"}

\* containers.run(..., remove=True, ...): the daemon removes the container
\* as soon as it is no longer running
AutoRemove == TRUE

\* The code texts a request may carry, as lexemes (maximal words and
\* punctuation marks; two adjacent words are separated by white space).
SampleCodes ==
    { <<"x", "=", "x">>,
      <<"import", "sys">>,
      <<"import", "os">>,
      <<"from", "os", "import", "x">>,
      <<"import", "sys", ",", "os">>,
      <<"#", "import", "os">> }

\* How a run of the target code ends: it completes, or raises this class.
Raisable ==
    {"none", "ZeroDivisionError", "AttributeError", "TypeError", "NameError",
     "ValueError", "SystemExit"}

\* Classes derived from Exception (SystemExit derives from BaseException only).
ExceptionClasses ==
    {"ZeroDivisionError", "AttributeError", "TypeError", "NameError",
     "ValueError", "OSError", "ImageNotFound", "APIError", "ContainerError",
     "TimeoutExpired", "ReadTimeout", "NotFound", "JSONDecodeError",
     "ConnectionError"}

\* ------------------------------------------------------------ dicts and JSON
Get(d, k, default) == IF k \in DOMAIN d THEN d[k] ELSE default

Json(isdict, d) == [isdict |-> isdict, d |-> d]

Blank == [k |-> "blank"]
Text == [k |-> "text"]
JsonChunk(v) == [k |-> "json", v |-> v]

\* What the target code can write on its own: a blank line, a line of text,
\* a number, or a record of its own making.
CodeChunks ==
    {Blank, Text, JsonChunk(Json(FALSE, <<>>)), JsonChunk(Json(TRUE, <<>>))}

RECURSIVE Strip(_)
\* str.strip() followed by json's own skipping of white space: blank chunks
\* carry nothing
Strip(chunks) ==
    IF chunks = <<>> THEN <<>>
    ELSE IF Head(chunks).k = "blank" THEN Strip(Tail(chunks))
         ELSE <<Head(chunks)>> \o Strip(Tail(chunks))

\* json.loads(output) succeeds exactly when the text is one JSON value
JsonLoadsOk(output) == Len(output) = 1 /\ output[1].k = "json"
JsonLoads(output) == output[1].v

SeqsUpTo(S, n) == UNION {[1..m -> S] : m \in 0..n}
\* --------------------------------------------------------- _build_wrapper
\* The label the wrapper's except chain records for an exception of class e;
\* the last clause, "except Exception", records type(e).__name__.
WrapperErrorType(e) ==
    IF e = "ZeroDivisionError" THEN "ZeroDivisionError"
    ELSE IF e = "AttributeError" THEN "AttributeError"
    ELSE IF e = "TypeError" THEN "TypeError"
    ELSE IF e = "NameError" THEN "NameError"
    ELSE e

\* Whether one of the wrapper's except clauses catches e
WrapperCatches(e) == e \in ExceptionClasses

\* The result dict the wrapper prints when it reaches its last line
WrapperResult(raises) ==
    IF raises = "none"
    THEN [success |-> TRUE, output |-> "Code executed successfully",
          error |-> None, error_type |-> None, traceback |-> None]
    ELSE [success |-> FALSE, output |-> "", error |-> "str(e)",
          error_type |-> WrapperErrorType(raises),
          traceback |-> "format_exc()"]

\* What a run of the wrapper script leaves on its standard output: whatever
\* the code wrote, then the one result line unless the exception escaped.
WrapperStdout(c) ==
    c.out \o (IF c.raises = "none" \/ WrapperCatches(c.raises)
              THEN <<JsonChunk(Json(TRUE, WrapperResult(c.raises)))>>
              ELSE <<>>)

WrapperStderr(c) == c.err

\* ------------------------------------------------ _classify_runtime_errors
\* "not result.get('success')": the model's success values are booleans, and
\* a missing key reads as None, which is falsy like False
Falsy(v) == v = FALSE

NotFoundCat == [found |-> FALSE]

\* The classifier with "if" where the source has "elif": the closing else
\* then belongs to the NameError test alone
ClassifyRuntimeErrorsNoElif(result) ==
    LET error_type == Get(result, "error_type", None)
        hit(kind) == IF error_type = kind /\ Falsy(Get(result, "success", FALSE))
                     THEN [found |-> TRUE, error |-> Get(result, "error", ""),
                           traceback |-> Get(result, "traceback", "")]
                     ELSE NotFoundCat
    IN  [execution_success |-> Get(result, "success", FALSE),
         wrong_attribute |-> hit("AttributeError"),
         wrong_input_type |-> hit("TypeError"),
         name_error |-> hit("NameError"),
         missing_corner_case |-> hit("ZeroDivisionError"),
         other_error |->
            IF error_type # "NameError" /\ Falsy(Get(result, "success", FALSE))
            THEN [found |-> TRUE, error_type |-> error_type,
                  error |-> Get(result, "error", ""),
                  traceback |-> Get(result, "traceback", "")]
            ELSE NotFoundCat]

ClassifyRuntimeErrors(result) ==
    LET classification ==
            [execution_success |-> Get(result, "success", FALSE),
             wrong_attribute |-> NotFoundCat,
             wrong_input_type |-> NotFoundCat,
             name_error |-> NotFoundCat,
             missing_corner_case |-> NotFoundCat,
             other_error |-> NotFoundCat]
        error_type == Get(result, "error_type", None)
        error_msg == Get(result, "error", "")
        tb == Get(result, "traceback", "")
    IN  IF Falsy(Get(result, "success", FALSE))
        THEN IF error_type = "ZeroDivisionError"
             THEN [classification EXCEPT !.missing_corner_case =
                      [found |-> TRUE, error |-> error_msg,
                       description |-> "ZeroDivisionError at runtime",
                       traceback |-> tb]]
             ELSE IF error_type = "AttributeError"
             THEN [classification EXCEPT !.wrong_attribute =
                      [found |-> TRUE, error |-> error_msg, traceback |-> tb]]
             ELSE IF error_type = "TypeError"
             THEN [classification EXCEPT !.wrong_input_type =
                      [found |-> TRUE, error |-> error_msg, traceback |-> tb]]
             ELSE IF error_type = "NameError"
             THEN [classification EXCEPT !.name_error =
                      [found |-> TRUE, error |-> error_msg, traceback |-> tb]]
             ELSE [classification EXCEPT !.other_error =
                      [found |-> TRUE, error_type |-> error_type,
                       error |-> error_msg, traceback |-> tb]]
        ELSE classification

\* The dict analyze() returns when neither backend produced a result
SkippedResult ==
    [execution_error |-> FALSE,
     error_message |-> "Dynamic analysis skipped (Docker unavailable and code contains system imports)",
     wrong_attribute |-> NotFoundCat,
     wrong_input_type |-> NotFoundCat,
     name_error |-> NotFoundCat,
     other_error |-> NotFoundCat]

\* ------------------------------------------------- _is_safe_for_subprocess
\* re.search(r'\bimport\s+{imp}\b|\bfrom\s+{imp}\b', code): the word import
\* or from, white space, then the word imp
ReSearch(imp, text) ==
    \E i \in 1..(Len(text) - 1) :
        /\ text[i] \in {"import", "from"}
        /\ text[i + 1] = imp

IsSafeForSubprocess(text) ==
    ~ \E imp \in DANGEROUS_IMPORTS : ReSearch(imp, text)

\* ------------------------------------------------------ backend result dicts
\* The timeout dict with its kind label forgotten
TimeoutResultUnlabelled ==
    [success |-> FALSE, error |-> "Execution timed out"]

TimeoutResult ==
    [success |-> FALSE, error |-> "Execution timed out",
     error_type |-> "TimeoutError"]

ParseErrorResult(output, msg) ==
    [success |-> FALSE, output |-> output, error |-> msg,
     error_type |-> "ParseError"]

\* The except clauses that close _execute_in_sandbox
SandboxErrorResult(e) ==
    IF e = "ContainerError"
    THEN [success |-> FALSE, error |-> "str(e)", error_type |-> "ContainerError"]
    ELSE IF e = "ImageNotFound"
    THEN [success |-> FALSE,
          error |-> "Docker image 'python:3.10-slim' not found. Please run: docker pull python:3.10-slim",
          error_type |-> "ImageNotFound"]
    ELSE [success |-> FALSE, error |-> "str(e)", error_type |-> "ExecutionError"]

\* json.loads(output), with the backend's fallback when it raises
ParseOutput(output, msg) ==
    IF JsonLoadsOk(Strip(output))
    THEN JsonLoads(Strip(output))
    ELSE Json(TRUE, ParseErrorResult(output, msg))

\* A handler written "except OSError" would let the classifier's
\* AttributeError through
AnalyzeCatchesOSErrorOnly(e) == e = "OSError"

\* "except Exception" in analyze(): the classes it catches
AnalyzeCatches(e) == e \in ExceptionClasses
\* ------------------------------------------------------------------- state
VARIABLES
    code,           \* self.code: its text, and what running it does
    timeout,        \* self.timeout
    client,         \* self.client: TRUE when docker.from_env() succeeded
    pc,             \* where the analyze() call stands
    tempFiles,      \* the script files that exist on disk
    container,      \* the container of this call
    child,          \* the child process of this call
    output,         \* the text captured from the backend
    result,         \* the raw result the backend returned
    exc,            \* the exception travelling through a finally block
    ret,            \* what analyze() returned
    filterVerdict,  \* what _is_safe_for_subprocess answered, if asked
    started,        \* the backends that launched the target code
    completed,      \* the backends in which the target code ran to its end
    yielded,        \* the backends that returned a raw result to analyze()
    waitExpired,    \* the backends whose wait exceeded the timeout
    sbFailure,      \* how the container attempt failed, if it did
    calls,          \* the other analyzers of the process: each one's own state
    disk,           \* the temporary directory those two share
    lit,            \* one code text on its way through the wrapper's literal
    reasoner        \* an LLMReasoner: its switch, its last call and answer

vars ==
    <<code, timeout, client, pc, tempFiles, container, child, output, result,
      exc, ret, filterVerdict, started, completed, yielded, waitExpired,
      sbFailure, calls, disk, lit, reasoner>>

NoValue == [none |-> TRUE]

Requests ==
    [text : SampleCodes,
     raises : Raisable,
     out : SeqsUpTo(CodeChunks, MaxPrint),
     err : {<<>>, <<Text>>, <<JsonChunk(Json(TRUE, <<>>))>>},
     runTime : 1..MaxRunTime]

\* The state after DynamicAnalyzer.__init__(code, timeout)
Init ==
    /\ code \in Requests
    /\ timeout \in 1..MaxTimeout
    /\ client \in BOOLEAN
    /\ pc = "analyze"
    /\ tempFiles = {}
    /\ container = "none"
    /\ child = "none"
    /\ output = <<>>
    /\ result = NoValue
    /\ exc = "none"
    /\ ret = NoValue
    /\ filterVerdict = "unevaluated"
    /\ started = {}
    /\ completed = {}
    /\ yielded = {}
    /\ waitExpired = {}
    /\ sbFailure = "none"
    /\ calls = <<>>
    /\ disk = <<>>
    /\ lit = NoValue
    /\ reasoner = NoValue

\* analyze() giving up after a container exception instead of falling through
SandboxRaisedToSkip(e) == IF AnalyzeCatches(e) THEN "skip" ELSE "raised"

\* analyze() starting over after a container exception
SandboxRaisedToRetry(e) == IF AnalyzeCatches(e) THEN "analyze" ELSE "raised"

\* Where an exception leaving _execute_in_sandbox takes analyze()
SandboxRaisedTo(e) == IF AnalyzeCatches(e) THEN "filter" ELSE "raised"
\* Where an exception leaving the subprocess attempt takes analyze()
SubprocessRaisedTo(e) == IF AnalyzeCatches(e) THEN "skip" ELSE "raised"

\* analyze() without its "if self.client:" test
AnalyzeIgnoresClient ==
    /\ pc = "analyze"
    /\ pc' = "sb_tmp"
    /\ UNCHANGED <<calls, disk, lit, reasoner, code, timeout, client, tempFiles, container, child, output,
                   result, exc, ret, filterVerdict, started, completed,
                   yielded, waitExpired, sbFailure>>

\* analyze(): "if self.client:"
Analyze ==
    /\ pc = "analyze"
    /\ pc' = IF client THEN "sb_tmp" ELSE "filter"
    /\ UNCHANGED <<calls, disk, lit, reasoner, code, timeout, client, tempFiles, container, child, output,
                   result, exc, ret, filterVerdict, started, completed,
                   yielded, waitExpired, sbFailure>>

\* ----------------------------------------------------- _execute_in_sandbox
\* tempfile.NamedTemporaryFile(delete=False) and f.write(wrapper_code), both
\* ahead of the try block: creating the file may fail, and so may writing it
SandboxMaterialize ==
    /\ pc = "sb_tmp"
    /\ \E how \in {"written", "create_failed", "write_failed"} :
        /\ tempFiles' = IF how = "create_failed" THEN tempFiles
                        ELSE tempFiles \cup {"sandbox.py"}
        /\ pc' = IF how = "written" THEN "sb_run" ELSE SandboxRaisedTo("OSError")
        /\ sbFailure' = IF how = "written" THEN sbFailure ELSE "materialize"
    /\ UNCHANGED <<calls, disk, lit, reasoner, code, timeout, client, container, child, output, result,
                   exc, ret, filterVerdict, started, completed, yielded,
                   waitExpired>>

\* What can stop containers.run before the container exists: the daemon is
\* not reachable, the image is not there, the daemon refuses the request
LaunchFailures == {"ConnectionError", "ImageNotFound", "APIError"}

\* self.client.containers.run(..., remove=True, detach=True)
SandboxRun ==
    /\ pc = "sb_run"
    /\ \E how \in {"started"} \cup LaunchFailures :
        IF how = "started"
        THEN /\ container' = "running"
             /\ started' = started \cup {"container"}
             /\ pc' = "sb_wait"
             /\ UNCHANGED <<result, sbFailure>>
        ELSE /\ result' = Json(TRUE, SandboxErrorResult(how))
             /\ sbFailure' = how
             /\ pc' = "sb_finally"
             /\ UNCHANGED <<container, started>>
    /\ UNCHANGED <<calls, disk, lit, reasoner, code, timeout, client, tempFiles, child, output, exc, ret,
                   filterVerdict, completed, yielded, waitExpired>>

\* container.wait(timeout=self.timeout)
SandboxWait ==
    /\ pc = "sb_wait"
    /\ IF code.runTime <= timeout
       THEN /\ container' = "exited"
            /\ completed' = completed \cup {"container"}
            /\ pc' = "sb_logs"
            /\ UNCHANGED <<waitExpired, sbFailure>>
       ELSE /\ waitExpired' = waitExpired \cup {"container"}
            /\ sbFailure' = "timeout"
            /\ pc' = "sb_stop"
            /\ UNCHANGED <<container, completed>>
    /\ UNCHANGED <<calls, disk, lit, reasoner, code, timeout, client, tempFiles, child, output, result,
                   exc, ret, filterVerdict, started, yielded>>

\* The container writes both streams to its log
ContainerLogs(c) == WrapperStderr(c) \o WrapperStdout(c)

\* container.logs().decode('utf-8'): the daemon removes the exited container
\* on its own (remove=True), before or after the logs are read
SandboxLogs ==
    /\ pc = "sb_logs"
    /\ \E gone \in BOOLEAN :
        IF gone /\ AutoRemove
        THEN /\ container' = "removed"
             /\ sbFailure' = "logs"
             /\ pc' = "sb_stop"
             /\ UNCHANGED output
        ELSE /\ output' = ContainerLogs(code)
             /\ container' = IF AutoRemove THEN "removed" ELSE container
             /\ pc' = "sb_parse"
             /\ UNCHANGED sbFailure
    /\ UNCHANGED <<calls, disk, lit, reasoner, code, timeout, client, tempFiles, child, result, exc, ret,
                   filterVerdict, started, completed, yielded, waitExpired>>

\* The container after container.stop(timeout=1); container.remove() inside
\* "try: ... except: pass": a failed stop skips the remove
AfterStopRemove(c, stopOk, removeOk) ==
    IF c # "running" THEN c
    ELSE IF ~stopOk THEN "running"
    ELSE IF removeOk \/ AutoRemove THEN "removed"
    ELSE "exited"

\* "except Exception as timeout_error": stop, remove, return the timeout dict
SandboxStop ==
    /\ pc = "sb_stop"
    /\ \E stopOk \in BOOLEAN, removeOk \in BOOLEAN :
        container' = AfterStopRemove(container, stopOk, removeOk)
    /\ result' = Json(TRUE, TimeoutResult)
    /\ pc' = "sb_finally"
    /\ UNCHANGED <<calls, disk, lit, reasoner, code, timeout, client, tempFiles, child, output, exc, ret,
                   filterVerdict, started, completed, yielded, waitExpired,
                   sbFailure>>

\* "try: result = json.loads(output) / except: result = {...ParseError}"
SandboxParse ==
    /\ pc = "sb_parse"
    /\ result' = ParseOutput(output, "Failed to parse execution result")
    /\ pc' = "sb_finally"
    /\ UNCHANGED <<calls, disk, lit, reasoner, code, timeout, client, tempFiles, container, child, output,
                   exc, ret, filterVerdict, started, completed, yielded,
                   waitExpired, sbFailure>>

\* The files left after "try: os.unlink(temp_file) / except: pass"
Unlink(files, f, ok) == IF ok THEN files \ {f} ELSE files

\* "finally:" of _execute_in_sandbox, then its return to analyze()
SandboxFinally ==
    /\ pc = "sb_finally"
    /\ \E ok \in BOOLEAN : tempFiles' = Unlink(tempFiles, "sandbox.py", ok)
    /\ yielded' = yielded \cup {"container"}
    /\ pc' = "sb_classify"
    /\ UNCHANGED <<calls, disk, lit, reasoner, code, timeout, client, container, child, output, result,
                   exc, ret, filterVerdict, started, completed, waitExpired,
                   sbFailure>>

\* result.get(...) raises AttributeError on anything that is not a dict
ClassifyRaises(r) == ~r.isdict

\* analyze(): "return self._classify_runtime_errors(result)" after the sandbox
AnalyzeClassifySandbox ==
    /\ pc = "sb_classify"
    /\ IF ClassifyRaises(result)
       THEN /\ pc' = SandboxRaisedTo("AttributeError")
            /\ UNCHANGED ret
       ELSE /\ ret' = ClassifyRuntimeErrors(result.d)
            /\ pc' = "returned"
    /\ UNCHANGED <<calls, disk, lit, reasoner, code, timeout, client, tempFiles, container, child, output,
                   result, exc, filterVerdict, started, completed, yielded,
                   waitExpired, sbFailure>>
\* --------------------------------------------------- subprocess fallback
\* analyze() calling the filter and going on whatever it answers
SubprocessFilterNotGating ==
    /\ pc = "filter"
    /\ filterVerdict' = IF IsSafeForSubprocess(code.text) THEN "permitted"
                        ELSE "rejected"
    /\ pc' = "sp_tmp"
    /\ UNCHANGED <<calls, disk, lit, reasoner, code, timeout, client, tempFiles, container, child, output,
                   result, exc, ret, started, completed, yielded, waitExpired,
                   sbFailure>>

\* analyze(): "if self._is_safe_for_subprocess():"
SubprocessFilter ==
    /\ pc = "filter"
    /\ LET safe == IsSafeForSubprocess(code.text)
       IN  /\ filterVerdict' = IF safe THEN "permitted" ELSE "rejected"
           /\ pc' = IF safe THEN "sp_tmp" ELSE "skip"
    /\ UNCHANGED <<calls, disk, lit, reasoner, code, timeout, client, tempFiles, container, child, output,
                   result, exc, ret, started, completed, yielded, waitExpired,
                   sbFailure>>

\* tempfile.NamedTemporaryFile(delete=False) and f.write(wrapper_code), ahead
\* of the try block of _execute_in_subprocess
SubprocessMaterialize ==
    /\ pc = "sp_tmp"
    /\ \E how \in {"written", "create_failed", "write_failed"} :
        /\ tempFiles' = IF how = "create_failed" THEN tempFiles
                        ELSE tempFiles \cup {"subprocess.py"}
        /\ pc' = IF how = "written" THEN "sp_run"
                 ELSE SubprocessRaisedTo("OSError")
    /\ UNCHANGED <<calls, disk, lit, reasoner, code, timeout, client, container, child, output, result,
                   exc, ret, filterVerdict, started, completed, yielded,
                   waitExpired, sbFailure>>

\* subprocess.run([sys.executable, temp_file], ...): starting the child
SubprocessRun ==
    /\ pc = "sp_run"
    /\ \E launched \in BOOLEAN :
        IF launched
        THEN /\ child' = "running"
             /\ started' = started \cup {"subprocess"}
             /\ pc' = "sp_wait"
             /\ UNCHANGED exc
        ELSE /\ exc' = "OSError"
             /\ pc' = "sp_finally"
             /\ UNCHANGED <<child, started>>
    /\ UNCHANGED <<calls, disk, lit, reasoner, code, timeout, client, tempFiles, container, output,
                   result, ret, filterVerdict, completed, yielded,
                   waitExpired, sbFailure>>

\* "output = proc.stdout.strip(); if not output: output = proc.stderr.strip()"
CapturedOutput(stdout, stderr) ==
    IF Strip(stdout) # <<>> THEN Strip(stdout) ELSE Strip(stderr)

\* subprocess.run(..., timeout=self.timeout): the child ends in time, or
\* run() kills it and raises TimeoutExpired, which the backend turns into
\* the timeout dict
SubprocessWait ==
    /\ pc = "sp_wait"
    /\ IF code.runTime <= timeout
       THEN /\ child' = "exited"
            /\ completed' = completed \cup {"subprocess"}
            /\ output' = CapturedOutput(WrapperStdout(code), WrapperStderr(code))
            /\ pc' = "sp_parse"
            /\ UNCHANGED <<result, waitExpired>>
       ELSE /\ child' = "killed"
            /\ waitExpired' = waitExpired \cup {"subprocess"}
            /\ result' = Json(TRUE, TimeoutResult)
            /\ pc' = "sp_finally"
            /\ UNCHANGED <<output, completed>>
    /\ UNCHANGED <<calls, disk, lit, reasoner, code, timeout, client, tempFiles, container, exc, ret,
                   filterVerdict, started, yielded, sbFailure>>

\* "try: return json.loads(output) / except Exception: return {...ParseError}"
SubprocessParse ==
    /\ pc = "sp_parse"
    /\ result' = ParseOutput(output, "Failed to parse subprocess output")
    /\ pc' = "sp_finally"
    /\ UNCHANGED <<calls, disk, lit, reasoner, code, timeout, client, tempFiles, container, child, output,
                   exc, ret, filterVerdict, started, completed, yielded,
                   waitExpired, sbFailure>>

\* "finally:" of _execute_in_subprocess, then its return or raise to analyze()
SubprocessFinally ==
    /\ pc = "sp_finally"
    /\ \E ok \in BOOLEAN : tempFiles' = Unlink(tempFiles, "subprocess.py", ok)
    /\ IF exc = "none"
       THEN /\ yielded' = yielded \cup {"subprocess"}
            /\ pc' = "sp_classify"
       ELSE /\ pc' = SubprocessRaisedTo(exc)
            /\ UNCHANGED yielded
    /\ exc' = "none"
    /\ UNCHANGED <<calls, disk, lit, reasoner, code, timeout, client, container, child, output, result,
                   ret, filterVerdict, started, completed, waitExpired,
                   sbFailure>>

\* analyze(): "return self._classify_runtime_errors(result)" after the child
AnalyzeClassifySubprocess ==
    /\ pc = "sp_classify"
    /\ IF ClassifyRaises(result)
       THEN /\ pc' = SubprocessRaisedTo("AttributeError")
            /\ UNCHANGED ret
       ELSE /\ ret' = ClassifyRuntimeErrors(result.d)
            /\ pc' = "returned"
    /\ UNCHANGED <<calls, disk, lit, reasoner, code, timeout, client, tempFiles, container, child, output,
                   result, exc, filterVerdict, started, completed, yielded,
                   waitExpired, sbFailure>>

\* analyze(): the closing "return {...}" of the skipped result
AnalyzeSkip ==
    /\ pc = "skip"
    /\ ret' = SkippedResult
    /\ pc' = "returned"
    /\ UNCHANGED <<calls, disk, lit, reasoner, code, timeout, client, tempFiles, container, child, output,
                   result, exc, filterVerdict, started, completed, yielded,
                   waitExpired, sbFailure>>

Next ==
    \/ Analyze
    \/ SandboxMaterialize
    \/ SandboxRun
    \/ SandboxWait
    \/ SandboxLogs
    \/ SandboxStop
    \/ SandboxParse
    \/ SandboxFinally
    \/ AnalyzeClassifySandbox
    \/ SubprocessFilter
    \/ SubprocessMaterialize
    \/ SubprocessRun
    \/ SubprocessWait
    \/ SubprocessParse
    \/ SubprocessFinally
    \/ AnalyzeClassifySubprocess
    \/ AnalyzeSkip

Spec == Init /\ [][Next]_vars
\* ==================================================================== claims
Categories ==
    {"wrong_attribute", "wrong_input_type", "name_error",
     "missing_corner_case", "other_error"}
TaxonomyKeys == Categories \cup {"execution_success"}

IsClassification(r) == "execution_success" \in DOMAIN r
IsSkipped(r) == "error_message" \in DOMAIN r
Found(r) == {k \in Categories \cap DOMAIN r : r[k].found}
Returned == pc = "returned"

\* C1: analyze() never raises to its caller: whatever the backends do, the
\* call ends, and only by returning a Classification or the skipped result.
C1_NeverRaises ==
    /\ pc # "raised"
    /\ (~ ENABLED Next) => Returned
    /\ Returned => (IsClassification(ret) \/ (IsSkipped(ret) /\ ret = SkippedResult))

\* C1 witness: both backends handed back something that is not a record, the
\* classifier raised twice, and analyze() still returned (the skipped result)
C1_Witness ==
    Returned /\ yielded = {"container", "subprocess"} /\ IsSkipped(ret)

\* C2 (as claimed): every returned value carries every taxonomy key, each
\* category present with a found flag.
C2_AllTaxonomyKeys ==
    Returned => /\ TaxonomyKeys \subseteq DOMAIN ret
                /\ \A k \in Categories : "found" \in DOMAIN ret[k]

C3_Label(f) ==
    IF f = "ImageNotFound" THEN "ImageNotFound"
    ELSE IF f \in {"APIError", "ConnectionError"} THEN "ExecutionError"
    ELSE "TimeoutError"

C4_TimeoutClassified ==
    (Returned /\ waitExpired # {})
        => /\ IsClassification(ret)
           /\ ret.execution_success = FALSE
           /\ Found(ret) = {"other_error"}
           /\ ret.other_error.error_type = "TimeoutError"

\* C4 witness: the child process outran the timeout and the call returned
C4_Witness ==
    Returned /\ waitExpired = {"subprocess"} /\ child = "killed"

\* C5 (as claimed): once analyze() has returned, its container is neither
\* running nor left behind, and its child process is not running.
C5_NothingOutlivesCall ==
    Returned => (container \in {"none", "removed"} /\ child # "running")

\* C6 (as claimed): a backend's script file is gone once that backend has
\* returned or raised.
C6_ScriptsDeleted ==
    /\ pc \in {"sb_classify", "filter", "sp_tmp", "sp_run", "sp_wait",
               "sp_parse", "sp_finally", "sp_classify", "skip", "returned"}
        => "sandbox.py" \notin tempFiles
    /\ pc \in {"sp_classify", "skip", "returned"}
        => "subprocess.py" \notin tempFiles

\* The modules a sample code imports (each sample is one statement):
\* "import a, b" imports a and b, "from a import x" imports a
ImportedModules(text) ==
    IF text[1] = "import" THEN {text[i] : i \in 2..Len(text)} \ {","}
    ELSE IF text[1] = "from" THEN {text[2]}
    ELSE {}

\* C7 (as claimed): with no container runtime, code importing a deny-listed
\* module is never started as a child process, and the skipped result returns.
C7_DenyListedNeverRun ==
    (~client /\ ImportedModules(code.text) \cap DANGEROUS_IMPORTS # {})
        => /\ "subprocess" \notin started
           /\ Returned => IsSkipped(ret)

\* C8 (as claimed): once the container backend has returned a raw result,
\* the subprocess backend is never started, and the code never runs twice.
C8_AtMostOneAttempt ==
    /\ "container" \in yielded => "subprocess" \notin started
    /\ Cardinality(completed) <= 1

\* The category the taxonomy assigns to a failure kind
C9_Category(kind) ==
    CASE kind = "ZeroDivisionError" -> "missing_corner_case"
      [] kind = "AttributeError" -> "wrong_attribute"
      [] kind = "TypeError" -> "wrong_input_type"
      [] kind = "NameError" -> "name_error"
      [] OTHER -> "other_error"

\* C9: the Classification of a failed raw result has exactly one category
\* found, the one its kind selects, other_error carrying the kind label; no
\* Classification has more than one category found.
C9_ExactlyOneCategory ==
    (Returned /\ IsClassification(ret))
        => /\ Cardinality(Found(ret)) <= 1
           /\ ~ Get(result.d, "success", FALSE)
               => LET kind == Get(result.d, "error_type", None)
                  IN  /\ Found(ret) = {C9_Category(kind)}
                      /\ C9_Category(kind) = "other_error"
                          => ret.other_error.error_type = kind

\* C9 witness: a division by zero came back as missing_corner_case
C9_Witness ==
    /\ Returned /\ IsClassification(ret)
    /\ code.raises = "ZeroDivisionError"
    /\ Found(ret) = {"missing_corner_case"}

\* C10 (as claimed): code that ran to its end without raising, its output
\* captured, is reported execution_success = true with no category found.
C10_CleanRunSucceeds ==
    (Returned /\ code.raises = "none" /\ completed # {} /\ sbFailure # "logs")
        => /\ IsClassification(ret)
           /\ ret.execution_success = TRUE
           /\ Found(ret) = {}
\* Whether a chunk is a result line of the wrapper: a record with its keys
IsResultLine(ch) ==
    ch.k = "json" /\ ch.v.isdict /\ "success" \in DOMAIN ch.v.d

\* Whether a captured text is exactly the one structured result record
IsOneRecord(o) ==
    Len(Strip(o)) = 1 /\ Strip(o)[1].k = "json" /\ Strip(o)[1].v.isdict

\* A backend captured the output of a finished run
Captured == completed # {} /\ sbFailure # "logs"

\* C11 (as claimed): captured output that is not the one result record (empty,
\* not JSON, extra lines, or JSON that is no record) ends in an other_error
\* Classification of kind ParseError, with no fall-back and no skip.
C11_BadOutputIsParseError ==
    (Returned /\ Captured /\ ~IsOneRecord(output))
        => /\ IsClassification(ret)
           /\ Found(ret) = {"other_error"}
           /\ ret.other_error.error_type = "ParseError"
           /\ Cardinality(started) = 1

\* C12 (as claimed): a wrapper script that ran to its end wrote exactly one
\* result line to its standard output, however the embedded code ended and
\* whatever it printed.
C12_OneResultLine ==
    completed # {}
        => Cardinality({i \in DOMAIN WrapperStdout(code) :
                            IsResultLine(WrapperStdout(code)[i])}) = 1
SandboxPcs ==
    {"sb_tmp", "sb_run", "sb_wait", "sb_logs", "sb_stop", "sb_parse",
     "sb_finally", "sb_classify"}
SubprocessPcs == {"sp_tmp", "sp_run", "sp_wait", "sp_parse", "sp_finally",
                  "sp_classify"}

\* C15: with no runtime handle (docker.from_env() failed and __init__ set
\* self.client to None) the container backend is never attempted, and
\* analyze() returns the subprocess backend's Classification when the filter
\* permitted, else the skipped result: skipped because the filter rejected or
\* because the subprocess attempt raised.
C15_NoHandleDegrades ==
    ~client
        => /\ pc \notin SandboxPcs /\ pc # "raised"
           /\ container = "none" /\ "container" \notin started
           /\ "sandbox.py" \notin tempFiles
           /\ Returned =>
                \/ /\ IsClassification(ret)
                   /\ filterVerdict = "permitted"
                   /\ yielded = {"subprocess"}
                \/ /\ IsSkipped(ret)
                   /\ \/ filterVerdict = "rejected" /\ started = {}
                      \/ /\ filterVerdict = "permitted"
                         /\ yielded = {} \/ ClassifyRaises(result)

\* C15 witness: no handle, the filter permitted, the child could not be
\* started, and the skipped result came back
C15_Witness ==
    ~client /\ Returned /\ IsSkipped(ret) /\ filterVerdict = "permitted"
\* What the caller can tell of a Classification: the success flag, the
\* categories found and the kind label (messages left aside)
OutcomeOf(c) ==
    [raised |-> FALSE, success |-> c.execution_success, found |-> Found(c),
     kind |-> IF c.other_error.found THEN c.other_error.error_type ELSE None]

\* The same for a raw result handed to the classifier, which may raise
OutcomeOfRaw(r) ==
    IF ClassifyRaises(r)
    THEN [raised |-> TRUE, success |-> FALSE, found |-> {}, kind |-> None]
    ELSE OutcomeOf(ClassifyRuntimeErrors(r.d))

\* What each backend makes of one finished run of the wrapper script
SandboxOutcome(c) ==
    OutcomeOfRaw(ParseOutput(ContainerLogs(c), "Failed to parse execution result"))
SubprocessOutcome(c) ==
    OutcomeOfRaw(ParseOutput(CapturedOutput(WrapperStdout(c), WrapperStderr(c)),
                             "Failed to parse subprocess output"))

\* C17 (as claimed): what one backend returned for a finished run of the
\* wrapper script is what the other backend makes of the same run (same
\* success flag, same category, same kind label).
C17_BackendsAgree ==
    /\ (Returned /\ completed = {"container"} /\ sbFailure = "none"
            /\ IsClassification(ret))
        => OutcomeOf(ret) = SubprocessOutcome(code)
    /\ (Returned /\ completed = {"subprocess"} /\ IsClassification(ret))
        => OutcomeOf(ret) = SandboxOutcome(code)
\* C18: the pre-filter is not evaluated before or during the container
\* attempt (which runs whatever the code imports), and the subprocess backend
\* is entered and its child started only with the verdict "permitted".
C18_FilterGatesSubprocessOnly ==
    /\ pc \in SandboxPcs \cup {"analyze"} => filterVerdict = "unevaluated"
    /\ pc \in SubprocessPcs => filterVerdict = "permitted"
    /\ "subprocess" \in started => filterVerdict = "permitted"
    /\ filterVerdict = "rejected" => child = "none" /\ "subprocess.py" \notin tempFiles

\* C18 witness: code the filter rejects ran in a container unfiltered; only
\* afterwards, on the way to the subprocess backend, was it rejected
C18_Witness ==
    /\ Returned /\ started = {"container"} /\ completed = {"container"}
    /\ filterVerdict = "rejected"

\* C19 (as claimed): the subprocess backend starts only once the container
\* attempt is over, its container stopped and its script removed, or was
\* never made; no container is started after it, and the two never run at
\* the same time.
C19_BackendsNeverOverlap ==
    /\ pc \in SubprocessPcs => container \in {"none", "exited", "removed"}
    /\ (pc \in SubprocessPcs /\ "container" \in started)
        => "sandbox.py" \notin tempFiles
    /\ pc \in SandboxPcs => (started \subseteq {"container"} /\ child = "none")
    /\ ~(container = "running" /\ child = "running")

\* The container path did not produce the return: there was no handle, or the
\* attempt raised into analyze()
C20_ContainerOut ==
    ~client \/ sbFailure = "materialize"
            \/ ("container" \in yielded /\ filterVerdict # "unevaluated")

\* C20 (as claimed): the skipped result is returned exactly when the
\* container path was unavailable or failed and the filter rejected the code
\* or the subprocess attempt raised before completing; a subprocess attempt
\* that completed and handed back its raw result ends in a Classification.
C20_SkippedExactlyWhen ==
    Returned
        => /\ IsSkipped(ret) <=>
                /\ C20_ContainerOut
                /\ \/ filterVerdict = "rejected"
                   \/ filterVerdict = "permitted" /\ "subprocess" \notin yielded
           /\ "subprocess" \in yielded => IsClassification(ret)
\* analyze() is one synchronous call: whenever a step of it can be taken, one
\* is (each backend call returns or raises: the container or child finishes
\* or its wait times out)
FairSpec == Spec /\ WF_vars(Next)

\* C13: every analyze() call eventually returns, through whichever of the
\* container, subprocess and skip paths it takes, the timeout handler's
\* stop/remove and the killed child included.
C13_EventuallyReturns == <>Returned

\* C13 witness: the container outran the timeout, the handler's stop and
\* remove were gone through, and the call returned
C13_Witness ==
    Returned /\ waitExpired = {"container"} /\ container = "removed"
\* ================================================ the wrapper's code literal
\* longest code text, in characters
MaxCodeLen == 3

\* The characters of a code text: the letter n, a single quote, a double
\* quote, a backslash, a line break
Chars == {"n", "q1", "q2", "bs", "nl"}

\* The quote repr() puts around a str: double quotes only when the text has a
\* single quote and no double quote
ReprQuote(text) ==
    IF (\E i \in DOMAIN text : text[i] = "q1") /\ ~(\E i \in DOMAIN text : text[i] = "q2")
    THEN "q2" ELSE "q1"

\* repr() of one character inside quotes q
ReprChar(ch, q) ==
    IF ch = q \/ ch = "bs" THEN <<"bs", ch>>
    ELSE IF ch = "nl" THEN <<"bs", "n">>
    ELSE <<ch>>

RECURSIVE ReprBody(_, _)
ReprBody(text, q) ==
    IF text = <<>> THEN <<>>
    ELSE ReprChar(Head(text), q) \o ReprBody(Tail(text), q)

\* The code pasted between quotes as it is
ReprVerbatim(text) == <<"q1">> \o text \o <<"q1">>

\* code_repr = repr(self.code)
Repr(text) ==
    <<ReprQuote(text)>> \o ReprBody(text, ReprQuote(text)) \o <<ReprQuote(text)>>

\* What a backslash followed by x stands for in a Python string literal
Unescape(x) ==
    IF x = "n" THEN <<"nl">>
    ELSE IF x = "nl" THEN <<>>
    ELSE <<x>>

RECURSIVE ScanLiteral(_, _, _, _)
\* The interpreter reading the literal of "code_to_run = ..." from position
\* i on: the value read so far is acc, the closing quote is q.  rest is what
\* follows the literal in the script.
ScanLiteral(src, i, q, acc) ==
    IF i > Len(src) THEN [ok |-> FALSE, value |-> acc, rest |-> <<>>]
    ELSE IF src[i] = q
    THEN [ok |-> TRUE, value |-> acc, rest |-> SubSeq(src, i + 1, Len(src))]
    ELSE IF src[i] = "nl" THEN [ok |-> FALSE, value |-> acc, rest |-> <<>>]
    ELSE IF src[i] = "bs"
    THEN IF i = Len(src) THEN [ok |-> FALSE, value |-> acc, rest |-> <<>>]
         ELSE ScanLiteral(src, i + 2, q, acc \o Unescape(src[i + 1]))
    ELSE ScanLiteral(src, i + 1, q, Append(acc, src[i]))

\* The value the script's "code_to_run = <literal>" assigns, handed to exec
CodeToRun(literal) == ScanLiteral(literal, 2, literal[1], <<>>)

\* The analyze() variables while no analyze() call of theirs is modelled
Idle ==
    /\ code = NoValue /\ timeout = 1 /\ client = FALSE /\ pc = "idle"
    /\ tempFiles = {} /\ container = "none" /\ child = "none"
    /\ output = <<>> /\ result = NoValue /\ exc = "none" /\ ret = NoValue
    /\ filterVerdict = "unevaluated" /\ started = {} /\ completed = {}
    /\ yielded = {} /\ waitExpired = {} /\ sbFailure = "none"

analyzeVars ==
    <<code, timeout, client, pc, tempFiles, container, child, output, result,
      exc, ret, filterVerdict, started, completed, yielded, waitExpired,
      sbFailure>>

InitLiteral ==
    /\ Idle
    /\ calls = <<>>
    /\ disk = <<>>
    /\ reasoner = NoValue
    /\ lit \in [text : SeqsUpTo(Chars, MaxCodeLen), stage : {"code"},
                literal : {<<>>}, run : {NoValue}]

\* _build_wrapper(): the f-string puts repr(self.code) after "code_to_run = "
BuildWrapper ==
    /\ lit.stage = "code"
    /\ lit' = [lit EXCEPT !.literal = Repr(lit.text), !.stage = "script"]
    /\ UNCHANGED <<analyzeVars, calls, disk, reasoner>>

\* The interpreter runs the script's second line
RunCodeToRun ==
    /\ lit.stage = "script"
    /\ lit' = [lit EXCEPT !.run = CodeToRun(lit.literal), !.stage = "run"]
    /\ UNCHANGED <<analyzeVars, calls, disk, reasoner>>

NextLiteral == BuildWrapper \/ RunCodeToRun

LiteralSpec == InitLiteral /\ [][NextLiteral]_vars

\* C16: the text the wrapper script hands to exec is the code text itself,
\* and the literal ends where the code ends: nothing of the code is left
\* over as script text after it.
C16_LiteralRoundTrips ==
    lit.stage = "run"
        => /\ lit.run.ok
           /\ lit.run.value = lit.text
           /\ lit.run.rest = <<>>

\* C16 witness: a text with both quotes and a backslash came through
C16_Witness ==
    /\ lit.stage = "run"
    /\ {lit.text[i] : i \in DOMAIN lit.text} = {"q1", "q2", "bs"}
    /\ lit.run.value = lit.text

\* ============================================= two analyze() calls at once
\* Two DynamicAnalyzer objects, each in its own thread
Calls == {1, 2}

\* The names the temporary directory, which the calls share, can hold
FileNames == {"tmpA.py", "tmpB.py"}

\* The code texts of the two calls
PairCodes == {<<"x", "=", "x">>, <<"import", "sys">>, <<"import", "os">>}

\* The requests of the two calls: code that writes nothing of its own, taken
\* by how it ends and how long it runs (it leaves the directory's files alone)
PairRequests ==
    [text : PairCodes,
     raises : {"none", "ZeroDivisionError"},
     out : {<<>>},
     err : {<<>>},
     runTime : 1..MaxRunTime]

\* A temporary-file name taken whether or not a file of that name exists
TempNamesReused(d) == FileNames

\* tempfile.NamedTemporaryFile(delete=False): the file is created under a
\* name no file of the directory has
TempNames(d) == {n \in FileNames : d[n] = NoValue}

InitPair ==
    /\ Idle
    /\ lit = NoValue
    /\ reasoner = NoValue
    /\ disk = [n \in FileNames |-> NoValue]
    /\ calls \in [Calls -> [code : PairRequests,
                            timeout : 1..MaxTimeout,
                            client : BOOLEAN,
                            pc : {"analyze"},
                            file : {None},
                            ran : {NoValue},
                            beside : {FALSE},
                            result : {NoValue},
                            ret : {NoValue}]]
    /\ calls[1].code.text # calls[2].code.text

\* The call holds a script file: from its creation to the finally clause
HoldsFile(k) == k.pc \in {"sb_run", "sb_wait", "sb_fin", "sp_run", "sp_wait", "sp_fin"}

\* analyze() of call c up to the backend it enters, or to the skipped result
PairAnalyze(c) ==
    /\ calls[c].pc = "analyze"
    /\ calls' = [calls EXCEPT ![c] =
         IF calls[c].client
         THEN [@ EXCEPT !.pc = "sb_tmp"]
         ELSE IF IsSafeForSubprocess(calls[c].code.text)
         THEN [@ EXCEPT !.pc = "sp_tmp"]
         ELSE [@ EXCEPT !.pc = "returned", !.ret = SkippedResult]]
    /\ UNCHANGED <<analyzeVars, disk, lit, reasoner>>

\* "with tempfile.NamedTemporaryFile(...) as f: f.write(wrapper_code)" of
\* either backend: the call's wrapper script goes to a new file
PairMaterialize(c) ==
    /\ calls[c].pc \in {"sb_tmp", "sp_tmp"}
    /\ \E n \in TempNames(disk) :
        /\ disk' = [disk EXCEPT ![n] = calls[c].code]
        /\ calls' = [calls EXCEPT ![c] =
             [@ EXCEPT !.file = n,
                       !.pc = IF @ = "sb_tmp" THEN "sb_run" ELSE "sp_run"]]
    /\ UNCHANGED <<analyzeVars, lit, reasoner>>

\* containers.run('python /code/<temp_filename>') or
\* subprocess.run([sys.executable, temp_file]): the interpreter of the call's
\* own container or child opens the file of that name and runs what it holds
PairRun(c) ==
    /\ calls[c].pc \in {"sb_run", "sp_run"}
    /\ calls' = [calls EXCEPT ![c] =
         [@ EXCEPT !.ran = disk[calls[c].file],
                   !.beside = \E o \in Calls \ {c} : HoldsFile(calls[o]),
                   !.pc = IF @ = "sb_run" THEN "sb_wait" ELSE "sp_wait"]]
    /\ UNCHANGED <<analyzeVars, disk, lit, reasoner>>

\* What the interpreter writes when it ran the script s: its two streams, or
\* "can't open file" on standard error when there was no file
RanStdout(s) == IF s = NoValue THEN <<>> ELSE WrapperStdout(s)
RanStderr(s) == IF s = NoValue THEN <<Text>> ELSE WrapperStderr(s)

\* The backend's result dict for a run of script s under timeout t
PairResult(sandbox, s, t) ==
    IF s # NoValue /\ s.runTime > t THEN Json(TRUE, TimeoutResult)
    ELSE IF sandbox
    THEN ParseOutput(RanStderr(s) \o RanStdout(s), "Failed to parse execution result")
    ELSE ParseOutput(CapturedOutput(RanStdout(s), RanStderr(s)),
                     "Failed to parse subprocess output")

\* container.wait(timeout) and logs, or subprocess.run's wait, then the parse
PairWait(c) ==
    /\ calls[c].pc \in {"sb_wait", "sp_wait"}
    /\ calls' = [calls EXCEPT ![c] =
         [@ EXCEPT !.result = PairResult(calls[c].pc = "sb_wait", calls[c].ran,
                                         calls[c].timeout),
                   !.pc = IF @ = "sb_wait" THEN "sb_fin" ELSE "sp_fin"]]
    /\ UNCHANGED <<analyzeVars, disk, lit, reasoner>>

\* "finally: os.unlink(temp_file)", then analyze() classifies and returns
PairFinally(c) ==
    /\ calls[c].pc \in {"sb_fin", "sp_fin"}
    /\ disk' = [disk EXCEPT ![calls[c].file] = NoValue]
    /\ calls' = [calls EXCEPT ![c] =
         [@ EXCEPT !.ret = ClassifyRuntimeErrors(calls[c].result.d),
                   !.pc = "returned"]]
    /\ UNCHANGED <<analyzeVars, lit, reasoner>>

NextPair ==
    \E c \in Calls :
        \/ PairAnalyze(c)
        \/ PairMaterialize(c)
        \/ PairRun(c)
        \/ PairWait(c)
        \/ PairFinally(c)

PairSpec == InitPair /\ [][NextPair]_vars

\* What a call's own code, timeout and handle determine of its result
PairOwnOutcome(k) ==
    OutcomeOfRaw(PairResult(k.client, k.code, k.timeout))

\* The call went through a backend (it was not skipped)
PairRanBackend(k) == k.client \/ IsSafeForSubprocess(k.code.text)

\* C14: of two analyze() calls on different code running at once, each runs
\* the script it wrote itself, no two calls hold the same script file, and
\* each returns the Classification its own code and timeout determine (or
\* the skipped result when its own code is refused without a handle).
C14_NoCrossContamination ==
    /\ \A c \in Calls :
        /\ calls[c].ran # NoValue => calls[c].ran = calls[c].code
        /\ calls[c].pc = "returned" =>
              IF PairRanBackend(calls[c])
              THEN /\ IsClassification(calls[c].ret)
                   /\ calls[c].ran = calls[c].code
                   /\ OutcomeOf(calls[c].ret) = PairOwnOutcome(calls[c])
              ELSE IsSkipped(calls[c].ret)
    /\ (HoldsFile(calls[1]) /\ HoldsFile(calls[2]))
          => calls[1].file # calls[2].file

\* C14 witness: the two calls ran side by side, one in a container and one
\* as a child process, and came back with different results, each its own
C14_Witness ==
    /\ \A c \in Calls : calls[c].pc = "returned" /\ IsClassification(calls[c].ret)
    /\ calls[1].beside \/ calls[2].beside
    /\ calls[1].client # calls[2].client
    /\ calls[1].ret.execution_success
    /\ calls[2].ret.other_error.found
    /\ calls[2].ret.other_error.error_type = "TimeoutError"
    /\ OutcomeOf(calls[1].ret) = PairOwnOutcome(calls[1])
    /\ OutcomeOf(calls[2].ret) = PairOwnOutcome(calls[2])

\* ================================================= launch failure labels
\* The kind label _execute_in_sandbox's except clauses give a launch failure
LaunchLabel(cause) == SandboxErrorResult(cause).error_type

\* C21: a container launch failure carries a kind label of its cause alone:
\* the label of a failed launch is the label of no other cause (daemon
\* unreachable, image missing, other launch error).
C21_LabelTellsCause ==
    (sbFailure \in LaunchFailures /\ "container" \in yielded)
        => \A other \in LaunchFailures \ {sbFailure} :
              LaunchLabel(other) # result.d.error_type

\* ================================================== the secondary stream
\* C22: in the subprocess backend, when the child's standard output is
\* empty its standard error is what gets parsed, and the call then returns
\* an other_error Classification of kind ParseError, whatever standard
\* error holds.
C22_StderrFallbackIsParseError ==
    (Returned /\ "subprocess" \in completed /\ Strip(WrapperStdout(code)) = <<>>)
        => /\ output = Strip(WrapperStderr(code))
           /\ IsClassification(ret)
           /\ Found(ret) = {"other_error"}
           /\ ret.other_error.error_type = "ParseError"

\* ============================================ one process, several requests
\* the requests one process serves, one after the other
MaxRequests == 2

\* The requests served: code that writes nothing of its own
ServeRequests ==
    [text : {<<"x", "=", "x">>, <<"import", "os">>},
     raises : {"none", "ZeroDivisionError"},
     out : {<<>>},
     err : {<<>>},
     runTime : 1..MaxRunTime]

\* The process before its first request: no DynamicAnalyzer exists yet
InitServe ==
    /\ Idle
    /\ calls = <<>>
    /\ disk = <<>>
    /\ lit = NoValue
    /\ reasoner = NoValue

\* DynamicAnalyzer(code, timeout) for the next request: __init__ stores the
\* code and the timeout and calls docker.from_env(), keeping the client it
\* returns or None when it raises.  calls keeps, for each analyzer built so
\* far, that from_env was called and what came of it.
Construct ==
    /\ pc \in {"idle", "returned"}
    /\ Len(calls) < MaxRequests
    /\ code' \in ServeRequests
    /\ timeout' \in 1..MaxTimeout
    /\ client' \in BOOLEAN
    /\ calls' = Append(calls, [fromEnvCalled |-> TRUE, client |-> client'])
    /\ pc' = "analyze"
    /\ container' = "none"
    /\ child' = "none"
    /\ output' = <<>>
    /\ result' = NoValue
    /\ exc' = "none"
    /\ ret' = NoValue
    /\ filterVerdict' = "unevaluated"
    /\ started' = {}
    /\ completed' = {}
    /\ yielded' = {}
    /\ waitExpired' = {}
    /\ sbFailure' = "none"
    /\ UNCHANGED <<tempFiles, disk, lit, reasoner>>

NextServe == Construct \/ Next

ServeSpec == InitServe /\ [][NextServe]_vars

\* How many times the process has called docker.from_env()
Acquisitions == Cardinality({i \in DOMAIN calls : calls[i].fromEnvCalled})

\* C23: the container-runtime handle is acquired once per process, however
\* many requests the process serves, and no step of analyze(), of a backend
\* or of the classifier changes the handle of the request being served.
C23_AcquiredOncePerProcess ==
    /\ [](Acquisitions <= 1)
    /\ [][pc \notin {"idle", "returned"} => client' = client]_vars

\* The second half of C23 alone: between construction and return the handle
\* of the request being served stays what __init__ made it
C23_HandleNeverReassigned ==
    [][pc \notin {"idle", "returned"} => client' = client]_vars

\* ================================================ the timeout outcome
\* C24: _execute_in_sandbox returns the timeout dict (kind TimeoutError) only
\* when the wait for the container exceeded the timeout; a container that
\* ended in time never yields it, unreadable logs included.
C24_TimeoutOnlyWhenWaitExpired ==
    (pc = "sb_classify" /\ result.isdict
        /\ Get(result.d, "error_type", None) = "TimeoutError")
        => "container" \in waitExpired

\* ===================================================== the LLM reasoner
\* (src/app/analyzers/linguistic/layers/layer3_llm_reasoner.py)
\* most entries a list of the LLM's answer holds
MaxIssues == 1

\* The keys the two methods read lists from
DeepKeys == {"npc_issues", "prompt_bias_issues", "missing_features", "misinterpretation"}
VerifyKeys == {"mismatches"}

\* What an answer has under one key: no such key, a value that cannot be
\* iterated (null, a number), or something iterable of n entries
FieldVals ==
    {[k |-> "absent"], [k |-> "null"]}
        \cup {[k |-> "list", n |-> i] : i \in 0..MaxIssues}

\* The text between the fences, or the whole text: not JSON, a JSON value
\* "k in" raises on (number, null), one it answers for (array, string), or
\* an object
Bodies ==
    {[k |-> "notjson"], [k |-> "number"], [k |-> "array"]}
        \cup {[k |-> "object", f |-> f] : f \in [DeepKeys \cup VerifyKeys -> FieldVals]}

\* What self.llm.ask(question) does: it raises, it returns None or "", or it
\* returns text, bare or inside a ```json or a plain ``` fence
LLMAnswers ==
    {[k |-> "raises"], [k |-> "empty"]}
        \cup {[k |-> "text", fence |-> fc, body |-> b] :
                 fc \in {"none", "json", "plain"}, b \in Bodies}

\* "return {'found': False, 'issues': [], ...}": reasoner disabled, no
\* response, or the outer "except Exception"
NoFindingReturn == [found |-> FALSE, issues |-> <<>>, layer |-> "llm"]

\* The inner "except (json.JSONDecodeError, ValueError)" of
\* deep_semantic_analysis: the raw text becomes the one issue
MalformedReturn ==
    [found |-> TRUE, issues |-> <<[type |-> "llm_analysis"]>>, layer |-> "llm"]

\* "for x in analysis.get(key, []): issues.append({'type': type, ...})"
IssuesOf(type, v) ==
    IF v.k = "list" THEN [i \in 1..v.n |-> [type |-> type]] ELSE <<>>

\* 'found' set whatever the issues are
FoundOfAnyAnswer(issues) == TRUE

\* "'found': len(all_issues) > 0"
FoundOf(issues) == Len(issues) > 0

\* The closing return of either method's try block
WellFormedReturn(issues) ==
    [found |-> FoundOf(issues), issues |-> issues, layer |-> "llm"]

\* deep_semantic_analysis(prompt, code) of an enabled reasoner whose LLM
\* answered a
DeepReturn(a) ==
    IF a.k = "raises" \/ a.k = "empty" THEN NoFindingReturn
    ELSE IF a.body.k = "notjson" THEN MalformedReturn
    ELSE IF a.body.k = "number" THEN NoFindingReturn
    ELSE IF a.body.k = "array" THEN MalformedReturn
    ELSE IF \E key \in DeepKeys : a.body.f[key].k = "absent" THEN MalformedReturn
    ELSE IF \E key \in DeepKeys : a.body.f[key].k = "null" THEN NoFindingReturn
    ELSE WellFormedReturn(
             IssuesOf("npc_semantic", a.body.f["npc_issues"])
             \o IssuesOf("prompt_bias_semantic", a.body.f["prompt_bias_issues"])
             \o IssuesOf("missing_feature_semantic", a.body.f["missing_features"])
             \o IssuesOf("misinterpretation_semantic", a.body.f["misinterpretation"]))

\* verify_misinterpretation(prompt, code) of an enabled reasoner whose LLM
\* answered a: only a ```json fence is taken off before json.loads
VerifyReturn(a) ==
    IF a.k = "raises" \/ a.k = "empty" THEN NoFindingReturn
    ELSE IF a.fence = "plain" \/ a.body.k # "object" THEN NoFindingReturn
    ELSE IF a.body.f["mismatches"].k = "null" THEN NoFindingReturn
    ELSE WellFormedReturn(IssuesOf("intent_mismatch", a.body.f["mismatches"]))

\* LLMReasoner.__init__: self.enabled = self.llm.enabled.  answer is what
\* the LLM does when the reasoner asks it.
InitReasoner ==
    /\ Idle
    /\ calls = <<>>
    /\ disk = <<>>
    /\ lit = NoValue
    /\ reasoner \in [enabled : BOOLEAN, method : {"none"}, answer : LLMAnswers,
                     ret : {NoValue}]

\* deep_semantic_analysis: "if not self.enabled: return {...}", else
\* self.llm.ask(question) and what the method makes of the answer
DeepSemanticAnalysis ==
    /\ reasoner.method = "none"
    /\ reasoner' = [reasoner EXCEPT
           !.method = "deep",
           !.ret = IF reasoner.enabled THEN DeepReturn(reasoner.answer)
                   ELSE NoFindingReturn]
    /\ UNCHANGED <<analyzeVars, calls, disk, lit>>

\* verify_misinterpretation, the same way
VerifyMisinterpretation ==
    /\ reasoner.method = "none"
    /\ reasoner' = [reasoner EXCEPT
           !.method = "verify",
           !.ret = IF reasoner.enabled THEN VerifyReturn(reasoner.answer)
                   ELSE NoFindingReturn]
    /\ UNCHANGED <<analyzeVars, calls, disk, lit>>

NextReasoner == DeepSemanticAnalysis \/ VerifyMisinterpretation

ReasonerSpec == InitReasoner /\ [][NextReasoner]_vars

\* C25: whatever deep_semantic_analysis or verify_misinterpretation returns,
\* on any of their return paths, has found = true exactly when its issues
\* list is not empty.
C25_FoundIffIssues ==
    reasoner.method # "none"
        => (reasoner.ret.found <=> reasoner.ret.issues # <<>>)

\* C25 witness: a well-formed answer with entries under two keys came back
\* from deep_semantic_analysis as found, with one issue for each entry
C25_Witness ==
    /\ reasoner.method = "deep"
    /\ reasoner.enabled
    /\ reasoner.answer.k = "text"
    /\ reasoner.answer.body.k = "object"
    /\ reasoner.ret.found
    /\ Len(reasoner.ret.issues) = 2
    /\ reasoner.ret.issues[1].type = "npc_semantic"
    /\ reasoner.ret.issues[2].type = "misinterpretation_semantic"
====
